---- MODULE Spec2Model ----
(***************************************************************************)
(* The transaction ledger of src-tauri/src/main.rs: the in-memory          *)
(* Vec<Transaction> behind AppState's Mutex, the JSON snapshot file, and   *)
(* the Tauri commands that read and change them.  Every command runs as    *)
(* its own task; the tasks share only the collection and the file.         *)
(*                                                                         *)
(* Strings are sequences of one-character strings, so that str::trim is    *)
(* computed and not assumed.  Amounts are in hundredths (10.00 is 1000).   *)
(***************************************************************************)
EXTENDS Integers, Sequences, FiniteSets, TLC

\* ------------------------------------------------------------------ bounds

\* The number of commands invoked in one run: when they may overlap, and when
\* each returns before the next is invoked.
MaxCalls == 2
MaxSeqCalls == 3

\* The number of records of the collections the two store queries are run on.
MaxLedger == 3

\* The tasks that may run commands at the same time.
Tasks == {1, 2}

\* The Mutex when no task holds it.
NoTask == 0

\* ------------------------------------------------------------- the strings

Sentinel == <<"T", "o", "d", "a", "s", " ", "l", "a", "s", " ", "T", "i", "e", "n", "d", "a", "s">>

SeedDescription == <<"T", "r", "a", "n", "s", "a", "c", "c", "i", "o", "n", " ", "i", "n", "i", "c", "i", "a", "l", " ", "d", "e", " ", "p", "r", "u", "e", "b", "a", " ", "(", "R", "u", "s", "t", ")">>

SeedStore == <<"T", "i", "e", "n", "d", "a", " ", "d", "e", " ", "P", "r", "u", "e", "b", "a", " ", "(", "R", "u", "s", "t", ")">>

SeedAmount == 1000

\* char::is_whitespace, for the characters the texts here are made of.
Whitespace == {" ", "\t", "\n"}

IsWhitespace(c) == c \in Whitespace

RECURSIVE TrimStart(_)
TrimStart(s) ==
    IF s = <<>> THEN <<>>
    ELSE IF IsWhitespace(Head(s)) THEN TrimStart(Tail(s))
    ELSE s

RECURSIVE TrimEnd(_)
TrimEnd(s) ==
    IF s = <<>> THEN <<>>
    ELSE IF IsWhitespace(s[Len(s)]) THEN TrimEnd(SubSeq(s, 1, Len(s) - 1))
    ELSE s

\* str::is_empty
IsEmpty(s) == s = <<>>

\* ---------------------------------------------------------- the inputs

\* What a caller passes for (transaction_type_str, amount, description,
\* store_name): inputs that pass the checks, and inputs that fail each check.
TransactionInputs ==
    { <<"Gasto", 1250, <<" ", "C", " ">>, <<" ", "A", " ">> >>,
      <<"Ingreso", 9905, <<"C">>, <<" ">> \o Sentinel>>,
      <<"Otro", 1250, <<"C">>, <<"A">> >>,
      <<"Gasto", 0, <<"C">>, <<"A">> >>,
      <<"Gasto", -500, <<"C">>, <<"A">> >>,
      <<"Gasto", 1250, <<" ">>, <<"A">> >>,
      <<"Gasto", 1250, <<"C">>, <<>> >> }

\* What a caller passes for a store name.
StoreInputs == {<<" ">>, <<" ", "A", " ">>, SeedStore, <<" ">> \o Sentinel}

\* The texts a command can meet: the ones a caller passes, the ones of the
\* seed record, and what trimming makes of them.
Texts ==
    LET given == {in[3] : in \in TransactionInputs}
                   \cup {in[4] : in \in TransactionInputs}
                   \cup StoreInputs \cup {SeedDescription, SeedStore}
    IN given \cup {TrimEnd(TrimStart(s)) : s \in given}

\* str::trim of each text, worked out once.
Trimmed == [s \in Texts |-> TrimEnd(TrimStart(s))]

\* str::trim
Trim(s) == Trimmed[s]

\* ------------------------------------------------------- results (Result<T, String>)

Pending == [ok |-> FALSE, err |-> "pending", value |-> <<>>]
Ok(v) == [ok |-> TRUE, err |-> "", value |-> v]
Err(e) == [ok |-> FALSE, err |-> e, value |-> <<>>]

\* Ok(sorted_stores) of get_unique_stores and Ok(store_counts) of
\* get_store_info_command.
OkStores(v) == [ok |-> TRUE, err |-> "", stores |-> v]
OkCounts(v) == [ok |-> TRUE, err |-> "", counts |-> v]
OkText(v) == [ok |-> TRUE, err |-> "", text |-> v]

ErrTipo == "Tipo de transaccion invalido"
ErrMonto == "El monto debe ser positivo."
ErrVacios == "La descripcion y el nombre de la tienda no pueden estar vacios."
ErrIdNoEncontrada == "Transaccion con ID {} no encontrada."
ErrNombresVacios == "Los nombres de tienda no pueden estar vacios."
ErrRenombrarTodas == "No se puede renombrar 'Todas las Tiendas'."
ErrMismoNombre == "El nuevo nombre de la tienda es el mismo que el anterior."
ErrRenombrarNoEncontrada == "Tienda '{}' no encontrada o sin transacciones para renombrar."
ErrNombreVacio == "El nombre de tienda no puede estar vacio."
ErrEliminarTodas == "No se puede eliminar 'Todas las Tiendas'."
ErrEliminarNoEncontrada == "Tienda '{}' no encontrada o sin transacciones para eliminar."
ErrDirectorio == "Fallo la creacion del directorio padre ({}): {}"
ErrGuardar == "Error al guardar transacciones: {}"

\* The error kinds of the command boundary.
IsInvalidInput(r) ==
    ~r.ok /\ r.err \in {ErrTipo, ErrMonto, ErrVacios, ErrNombresVacios,
                        ErrRenombrarTodas, ErrMismoNombre, ErrNombreVacio,
                        ErrEliminarTodas}
IsNotFound(r) ==
    ~r.ok /\ r.err \in {ErrIdNoEncontrada, ErrRenombrarNoEncontrada,
                        ErrEliminarNoEncontrada}
IsPersistenceError(r) == ~r.ok /\ r.err \in {ErrDirectorio, ErrGuardar}

\* ------------------------------------------------------------- the file

DigitChar == <<"0", "1", "2", "3", "4", "5", "6", "7", "8", "9">>

\* An unsigned integer in decimal digits.
RECURSIVE Digits(_)
Digits(n) ==
    IF n < 10 THEN <<DigitChar[n + 1]>>
    ELSE Digits(n \div 10) \o <<DigitChar[(n % 10) + 1]>>

DigitValue(c) == CHOOSE d \in 0 .. 9 : DigitChar[d + 1] = c

RECURSIVE ParseDigits(_)
ParseDigits(s) ==
    IF s = <<>> THEN 0
    ELSE 10 * ParseDigits(SubSeq(s, 1, Len(s) - 1)) + DigitValue(s[Len(s)])

\* Mutant: the amount is written without its fraction.
AmountText_Whole(amount) == Digits(amount \div 100) \o <<".", "0">>

\* The text serde_json writes for the f64 of an amount: the shortest decimal
\* that reads back as the same number, with at least one digit after the
\* point. Amounts are counted in hundredths, and none stored is negative.
AmountText(amount) ==
    LET whole == amount \div 100
        cents == amount % 100
    IN  Digits(whole) \o <<".">> \o
        (IF cents % 10 = 0 THEN Digits(cents \div 10)
         ELSE <<DigitChar[(cents \div 10) + 1], DigitChar[(cents % 10) + 1]>>)

\* The f64 serde_json reads from such a text, in hundredths.
ParseAmount(text) ==
    LET point == CHOOSE i \in 1 .. Len(text) : text[i] = "."
        fraction == SubSeq(text, point + 1, Len(text))
    IN  100 * ParseDigits(SubSeq(text, 1, point - 1))
        + (IF Len(fraction) = 1 THEN 10 * DigitValue(fraction[1])
           ELSE ParseDigits(fraction))

\* struct Transaction
Transaction(id, ty, amount, description, store_name, timestamp) ==
    [id |-> id, transaction_type |-> ty, amount |-> amount,
     description |-> description, store_name |-> store_name,
     timestamp |-> timestamp]

\* #[derive(Serialize)] on Transaction: transaction_type goes under the key
\* "type", as the variant's name.
ToJson(tx) ==
    [id |-> tx.id, type |-> tx.transaction_type, amount |-> AmountText(tx.amount),
     description |-> tx.description, store_name |-> tx.store_name,
     timestamp |-> tx.timestamp]

\* #[derive(Deserialize)] on Transaction.
FromJson(object) ==
    Transaction(object.id, object.type, ParseAmount(object.amount),
                object.description, object.store_name, object.timestamp)

ToJsonAll(txs) == [i \in 1 .. Len(txs) |-> ToJson(txs[i])]

FromJsonAll(objects) == [i \in 1 .. Len(objects) |-> FromJson(objects[i])]

\* The bytes of one record in to_string_pretty's layout besides its type, amount,
\* description and store name: the braces, keys, quotes, commas, indentation and
\* line ends, the 36 characters of a uuid and the 10 digits of a timestamp.
RecordLayoutSize == 162

RECURSIVE RecordsSize(_)
RecordsSize(txs) ==
    IF txs = <<>> THEN 0
    ELSE RecordLayoutSize + Len(Head(txs).transaction_type)
         + Len(AmountText(Head(txs).amount)) + Len(Head(txs).description)
         + Len(Head(txs).store_name) + RecordsSize(Tail(txs))

\* The length of to_string_pretty's text: "[]" for no record, otherwise the
\* records between "[\n" and "\n]" with ",\n" between two of them.
JsonSize(txs) ==
    IF txs = <<>> THEN 2
    ELSE 4 + RecordsSize(txs) + 2 * (Len(txs) - 1)

\* transactions.json: absent, holding the text of a collection, or holding a
\* text serde_json cannot read; its length in bytes.
NoFile == [state |-> "absent", data |-> <<>>, size |-> 0]
Written(txs) == [state |-> "json", data |-> ToJsonAll(txs), size |-> JsonSize(txs)]
Damaged(size) == [state |-> "damaged", data |-> <<>>, size |-> size]

\* File::create: the file exists and is empty.
Created == Damaged(0)

\* write_all from the start of a file opened earlier: a text at least as long
\* as what the file holds by now replaces it, a shorter one leaves the rest
\* of the longer behind it.
Overwritten(f, txs) ==
    IF f.size > JsonSize(txs) THEN Damaged(f.size) ELSE Written(txs)

\* write_all failing: nothing written, or the text cut short.
CutShort(f, txs) ==
    IF f.size >= JsonSize(txs) THEN Damaged(f.size) ELSE Damaged(JsonSize(txs) - 1)

ErrLeer == "Error al leer archivo de datos: {}"
ErrParsear == "Error al parsear datos de transacciones: {}"

\* load_transactions_from_file; readable is whether read_to_string succeeds.
LoadTransactionsFromFile(f, readable) ==
    IF f.state = "absent" THEN Ok(<<>>)
    ELSE IF ~readable THEN Err(ErrLeer)
    ELSE IF f.state = "json" THEN Ok(FromJsonAll(f.data))
    ELSE Err(ErrParsear)

\* ------------------------------------------------------------- the state

VARIABLES
    transactions,   \* AppState.transactions: the Vec behind the Mutex
    lock,           \* the task holding the Mutex, or NoTask
    pc,             \* where each task's command is
    cmd,            \* the running command's arguments and locals
    to_save,        \* the running command's transactions_to_save
    result,         \* what the last command to return returned, at its task
    file,           \* the content of transactions.json
    nextId,         \* the ids uuid::Uuid::new_v4 has handed out so far, plus one
    now,            \* the clock, in seconds
    calls,          \* the commands invoked so far
    seen,           \* history: every id a record of the collection ever had
    overlap,        \* whether the caller invokes commands while others run
    serial,         \* history: the collection after the commands that have
                    \* taken the Mutex so far, run whole, one after another,
                    \* in the order they took it
    expected,       \* history: what each command that has taken the Mutex
                    \* returns in that run
    last_deleted    \* history: the store the commands before removed by
                    \* delete_store_command and have asked only to remove
                    \* again since, <<>> when they did something else

vars == <<transactions, lock, pc, cmd, to_save, result, file, nextId, now, calls,
          seen, overlap, serial, expected, last_deleted>>

NoCmd ==
    [op |-> "none", id |-> 0, transaction_type |-> "", amount |-> 0,
     description |-> <<>>, store_name |-> <<>>, new_name |-> <<>>, timestamp |-> 0,
     ret |-> <<>>]

\* main: load the file, go on with no record when that fails, and put the
\* test record in a collection that would be empty.
Main(f, readable, id, ts) ==
    LET loaded == LoadTransactionsFromFile(f, readable)
        initial_transactions == IF loaded.ok THEN loaded.value ELSE <<>>
    IN  IF Len(initial_transactions) = 0
        THEN <<Transaction(id, "Ingreso", SeedAmount, SeedDescription, SeedStore, ts)>>
        ELSE initial_transactions

\* main: no file at the first start, so the collection holds the test record.
InitWith(overlapping) ==
    /\ transactions = Main(NoFile, TRUE, 1, 0)
    /\ lock = NoTask
    /\ pc = [t \in Tasks |-> "idle"]
    /\ cmd = [t \in Tasks |-> NoCmd]
    /\ to_save = [t \in Tasks |-> <<>>]
    /\ result = [t \in Tasks |-> Pending]
    /\ file = NoFile
    /\ nextId = 2
    /\ now = 0
    /\ calls = 0
    /\ seen = {1}
    /\ overlap = overlapping
    /\ serial = transactions
    /\ expected = [t \in Tasks |-> Pending]
    /\ last_deleted = <<>>

Init == InitWith(TRUE)

\* ------------------------------------------------ the collection's operations

Ids(txs) == {txs[i].id : i \in 1 .. Len(txs)}

\* iter().position(|t| t.id == id): the first index holding the id, 0 for None.
Position(txs, id) ==
    IF \E i \in 1 .. Len(txs) : txs[i].id = id
    THEN CHOOSE i \in 1 .. Len(txs) :
            /\ txs[i].id = id
            /\ \A j \in 1 .. (i - 1) : txs[j].id # id
    ELSE 0

\* Mutant: the predicate is inverted.
RetainIdNot_Inverted(txs, id) == SelectSeq(txs, LAMBDA x : x.id = id)

\* retain(|t| t.id != id)
RECURSIVE RetainIdNot(_, _)
RetainIdNot(txs, id) ==
    IF txs = <<>> THEN <<>>
    ELSE IF Head(txs).id # id THEN <<Head(txs)>> \o RetainIdNot(Tail(txs), id)
    ELSE RetainIdNot(Tail(txs), id)

\* Mutant: the predicate is inverted.
RetainStoreNot_Inverted(txs, name) == SelectSeq(txs, LAMBDA x : x.store_name = name)

\* retain(|t| t.store_name != trimmed_store_name)
RECURSIVE RetainStoreNot(_, _)
RetainStoreNot(txs, name) ==
    IF txs = <<>> THEN <<>>
    ELSE IF Head(txs).store_name # name
         THEN <<Head(txs)>> \o RetainStoreNot(Tail(txs), name)
    ELSE RetainStoreNot(Tail(txs), name)

\* Mutant: the loop stops at the first record it renames.
RenameAll_FirstOnly(txs, old, new) ==
    [i \in 1 .. Len(txs) |->
        IF txs[i].store_name = old /\ \A j \in 1 .. (i - 1) : txs[j].store_name # old
        THEN [txs[i] EXCEPT !.store_name = new]
        ELSE txs[i]]

\* The loop of rename_store_command over iter_mut().
RenameAll(txs, old, new) ==
    [i \in 1 .. Len(txs) |->
        IF txs[i].store_name = old
        THEN [txs[i] EXCEPT !.store_name = new]
        ELSE txs[i]]

\* Mutant: the counter is bumped for every record visited.
RenamedCount_CountsAll(txs, old) == Len(txs)

\* renamed_count after that loop.
RenamedCount(txs, old) == Cardinality({i \in 1 .. Len(txs) : txs[i].store_name = old})

\* The bytes of the characters the texts here are made of.
CodePoint ==
    (" " :> 32) @@ ("(" :> 40) @@ (")" :> 41) @@ ("A" :> 65) @@ ("C" :> 67)
    @@ ("P" :> 80) @@ ("R" :> 82) @@ ("T" :> 84) @@ ("W" :> 87) @@ ("a" :> 97)
    @@ ("b" :> 98) @@ ("c" :> 99) @@ ("d" :> 100) @@ ("e" :> 101) @@ ("f" :> 102)
    @@ ("i" :> 105) @@ ("k" :> 107) @@ ("l" :> 108) @@ ("n" :> 110)
    @@ ("o" :> 111) @@ ("p" :> 112) @@ ("r" :> 114) @@ ("s" :> 115)
    @@ ("t" :> 116) @@ ("u" :> 117)

\* Ord for String: byte by byte, a proper prefix first.
RECURSIVE StringLess(_, _)
StringLess(a, b) ==
    IF b = <<>> THEN FALSE
    ELSE IF a = <<>> THEN TRUE
    ELSE IF Head(a) # Head(b) THEN CodePoint[Head(a)] < CodePoint[Head(b)]
    ELSE StringLess(Tail(a), Tail(b))

\* into_iter().collect() and sort_unstable(): the strings of a set in order.
RECURSIVE SortUnstable(_)
SortUnstable(S) ==
    IF S = {} THEN <<>>
    ELSE LET least == CHOOSE x \in S : \A y \in S \ {x} : StringLess(x, y)
         IN <<least>> \o SortUnstable(S \ {least})

\* transactions.iter().map(|t| t.store_name.clone()).collect::<HashSet<_>>()
CollectStores(txs) == {txs[i].store_name : i \in 1 .. Len(txs)}

\* Mutant: the sentinel is put in front of the sorted stores.
SortedStores_SentinelFirst(txs) ==
    <<Sentinel>> \o SortUnstable(CollectStores(txs) \ {Sentinel})

\* sorted_stores of get_unique_stores: the sentinel inserted, then sorted.
SortedStores(txs) == SortUnstable(CollectStores(txs) \cup {Sentinel})

\* The loop of get_store_info_command: *entry(store_name).or_insert(0) += 1.
RECURSIVE StoreCounts(_, _)
StoreCounts(txs, store_counts) ==
    IF txs = <<>> THEN store_counts
    ELSE LET name == Head(txs).store_name IN
         IF name \in DOMAIN store_counts
         THEN StoreCounts(Tail(txs), [store_counts EXCEPT ![name] = @ + 1])
         ELSE StoreCounts(Tail(txs), store_counts @@ (name :> 1))

\* HashMap::new()
EmptyMap == [name \in {} |-> 0]

\* Mutant: the record is built anew and stamped with the current time.
UpdateFields_Restamps(tx, ty, amount, description, store_name) ==
    Transaction(tx.id, ty, amount, description, store_name, now)

\* The four assignments of update_transaction_command.
UpdateFields(tx, ty, amount, description, store_name) ==
    [tx EXCEPT !.transaction_type = ty,
               !.amount = amount,
               !.description = description,
               !.store_name = store_name]

\* ------------------------------------------------------------ validation

\* The match on transaction_type_str: is it one of the two tags.
ParsesAsType(s) == s \in {"Ingreso", "Gasto"}

\* Mutant: zero is let through.
AmountRejected_ZeroPasses(amount) == amount < 0

\* amount <= 0.0
AmountRejected(amount) == amount <= 0

\* Mutant: the texts are tested without trimming them.
TextRejected_NoTrim(description, store_name) ==
    IsEmpty(description) \/ IsEmpty(store_name)

\* description.trim().is_empty() || store_name.trim().is_empty()
TextRejected(description, store_name) ==
    IsEmpty(Trim(description)) \/ IsEmpty(Trim(store_name))

\* What add_transaction_command and update_transaction_command return before
\* they touch the collection: an error message, or "" when the input passes.
TransactionValidation(ty, amount, description, store_name) ==
    IF ~ParsesAsType(ty) THEN ErrTipo
    ELSE IF AmountRejected(amount) THEN ErrMonto
    ELSE IF TextRejected(description, store_name) THEN ErrVacios
    ELSE ""

\* Mutant: the sentinel is not turned away as the old name.
RenameValidation_SentinelPasses(old_store_name, new_store_name) ==
    IF IsEmpty(Trim(old_store_name)) \/ IsEmpty(Trim(new_store_name)) THEN ErrNombresVacios
    ELSE IF Trim(old_store_name) = Trim(new_store_name) THEN ErrMismoNombre
    ELSE ""

\* The three early returns of rename_store_command.
RenameValidation(old_store_name, new_store_name) ==
    IF IsEmpty(Trim(old_store_name)) \/ IsEmpty(Trim(new_store_name)) THEN ErrNombresVacios
    ELSE IF Trim(old_store_name) = Sentinel THEN ErrRenombrarTodas
    ELSE IF Trim(old_store_name) = Trim(new_store_name) THEN ErrMismoNombre
    ELSE ""

\* The two early returns of delete_store_command.
DeleteStoreValidation(store_name) ==
    IF IsEmpty(Trim(store_name)) THEN ErrNombreVacio
    ELSE IF Trim(store_name) = Sentinel THEN ErrEliminarTodas
    ELSE ""

\* ------------------------------------------------------------ the steps

\* A command returns r to its caller: its locals are gone. The caller has
\* taken what the commands before it returned.
Return(t, r) ==
    /\ result' = [u \in Tasks |-> IF u = t THEN r ELSE Pending]
    /\ pc' = [pc EXCEPT ![t] = "idle"]
    /\ cmd' = [cmd EXCEPT ![t] = NoCmd]
    /\ to_save' = [to_save EXCEPT ![t] = <<>>]
    /\ expected' = [expected EXCEPT ![t] = Pending]

\* A command is invoked and goes on to lock the collection.
Proceed(t, c) ==
    /\ result' = [result EXCEPT ![t] = Pending]
    /\ pc' = [pc EXCEPT ![t] = "acquire"]
    /\ cmd' = [cmd EXCEPT ![t] = c]
    /\ UNCHANGED <<to_save, expected>>

\* The runtime gives a new command to the first task that is free.
FirstFree(t) == pc[t] = "idle" /\ \A u \in Tasks : pc[u] = "idle" => t <= u

AllIdle == \A t \in Tasks : pc[t] = "idle"

\* A command may be invoked on task t: at any time when the caller overlaps
\* its commands, and otherwise once the last one has returned.
CanCall(t) ==
    /\ FirstFree(t)
    /\ overlap \/ AllIdle
    /\ calls < (IF overlap THEN MaxCalls ELSE MaxSeqCalls)

\* Mutant: the id is made from the collection's length.
NewUuid_FromLength == Len(transactions) + 1

\* uuid::Uuid::new_v4(): an id no earlier call returned.
NewUuid == nextId

\* add_transaction_command up to the lock: the checks, then new_transaction.
AddTransactionCall(t, ty, amount, description, store_name) ==
    /\ CanCall(t)
    /\ calls' = calls + 1
    /\ LET e == TransactionValidation(ty, amount, description, store_name) IN
       IF e # ""
       THEN Return(t, Err(e)) /\ UNCHANGED <<nextId, now>>
       ELSE \E ts \in {now, now + 1} :
            LET new_transaction ==
                    Transaction(NewUuid, ty, amount, Trim(description),
                                Trim(store_name), ts)
            IN /\ Proceed(t, [NoCmd EXCEPT !.op = "add", !.ret = <<new_transaction>>])
               /\ nextId' = nextId + 1
               /\ now' = ts
    /\ UNCHANGED <<transactions, lock, file, seen, overlap, serial>>
    /\ last_deleted' = <<>>

\* update_transaction_command up to the lock.
UpdateTransactionCall(t, id, ty, amount, description, store_name) ==
    /\ CanCall(t)
    /\ calls' = calls + 1
    /\ LET e == TransactionValidation(ty, amount, description, store_name) IN
       IF e # ""
       THEN Return(t, Err(e))
       ELSE Proceed(t, [NoCmd EXCEPT !.op = "update", !.id = id,
                                     !.transaction_type = ty, !.amount = amount,
                                     !.description = description,
                                     !.store_name = store_name])
    /\ UNCHANGED <<transactions, lock, file, nextId, now, seen, overlap, serial>>
    /\ last_deleted' = <<>>

\* delete_transaction_command up to the lock.
DeleteTransactionCall(t, id) ==
    /\ CanCall(t)
    /\ calls' = calls + 1
    /\ Proceed(t, [NoCmd EXCEPT !.op = "delete", !.id = id])
    /\ UNCHANGED <<transactions, lock, file, nextId, now, seen, overlap, serial>>
    /\ last_deleted' = <<>>

\* rename_store_command up to the lock.
RenameStoreCall(t, old_store_name, new_store_name) ==
    /\ CanCall(t)
    /\ calls' = calls + 1
    /\ LET e == RenameValidation(old_store_name, new_store_name) IN
       IF e # ""
       THEN Return(t, Err(e))
       ELSE Proceed(t, [NoCmd EXCEPT !.op = "rename",
                                     !.store_name = Trim(old_store_name),
                                     !.new_name = Trim(new_store_name)])
    /\ UNCHANGED <<transactions, lock, file, nextId, now, seen, overlap, serial>>
    /\ last_deleted' = <<>>

\* delete_store_command up to the lock.
DeleteStoreCall(t, store_name) ==
    /\ CanCall(t)
    /\ calls' = calls + 1
    /\ LET e == DeleteStoreValidation(store_name) IN
       IF e # ""
       THEN Return(t, Err(e))
       ELSE Proceed(t, [NoCmd EXCEPT !.op = "delete_store",
                                     !.store_name = Trim(store_name)])
    /\ UNCHANGED <<transactions, lock, file, nextId, now, seen, overlap, serial>>
    /\ last_deleted' = IF DeleteStoreValidation(store_name) = ""
                          /\ Trim(store_name) = last_deleted
                       THEN last_deleted ELSE <<>>

\* get_all_transactions up to the lock.
GetAllTransactionsCall(t) ==
    /\ CanCall(t)
    /\ calls' = calls + 1
    /\ Proceed(t, [NoCmd EXCEPT !.op = "list"])
    /\ UNCHANGED <<transactions, lock, file, nextId, now, seen, overlap, serial>>
    /\ last_deleted' = <<>>

\* get_unique_stores up to the lock.
GetUniqueStoresCall(t) ==
    /\ CanCall(t)
    /\ calls' = calls + 1
    /\ Proceed(t, [NoCmd EXCEPT !.op = "stores"])
    /\ UNCHANGED <<transactions, lock, file, nextId, now, seen, overlap, serial>>
    /\ last_deleted' = <<>>

\* get_store_info_command up to the lock.
GetStoreInfoCall(t) ==
    /\ CanCall(t)
    /\ calls' = calls + 1
    /\ Proceed(t, [NoCmd EXCEPT !.op = "store_info"])
    /\ UNCHANGED <<transactions, lock, file, nextId, now, seen, overlap, serial>>
    /\ last_deleted' = <<>>

\* A command's block under the Mutex run whole on a collection, with nothing
\* between its lock and its unlock: the collection it leaves and what the
\* command returns when its save, if it makes one, succeeds.
Execute(c, txs) ==
    CASE c.op = "add" ->
            [transactions |-> Append(txs, c.ret[1]), result |-> Ok(c.ret)]
      [] c.op = "update" ->
            LET pos == Position(txs, c.id)
                updated == [txs EXCEPT ![pos] =
                               UpdateFields(@, c.transaction_type, c.amount,
                                            Trim(c.description), Trim(c.store_name))]
            IN  IF pos # 0
                THEN [transactions |-> updated, result |-> Ok(<<updated[pos]>>)]
                ELSE [transactions |-> txs, result |-> Err(ErrIdNoEncontrada)]
      [] c.op = "delete" ->
            LET kept == RetainIdNot(txs, c.id)
            IN  IF Len(kept) < Len(txs)
                THEN [transactions |-> kept, result |-> Ok(c.ret)]
                ELSE [transactions |-> txs, result |-> Err(ErrIdNoEncontrada)]
      [] c.op = "rename" ->
            IF RenamedCount(txs, c.store_name) > 0
            THEN [transactions |-> RenameAll(txs, c.store_name, c.new_name),
                  result |-> Ok(c.ret)]
            ELSE [transactions |-> txs, result |-> Err(ErrRenombrarNoEncontrada)]
      [] c.op = "delete_store" ->
            LET kept == RetainStoreNot(txs, c.store_name)
            IN  IF Len(kept) < Len(txs)
                THEN [transactions |-> kept, result |-> Ok(c.ret)]
                ELSE [transactions |-> txs, result |-> Err(ErrEliminarNoEncontrada)]
      [] c.op = "list" -> [transactions |-> txs, result |-> Ok(txs)]
      [] c.op = "stores" ->
            [transactions |-> txs, result |-> OkStores(SortedStores(txs))]
      [] c.op = "store_info" ->
            [transactions |-> txs, result |-> OkCounts(StoreCounts(txs, EmptyMap))]

\* Mutant: the task does not wait for the Mutex.
Lock_NoWait(t) ==
    /\ pc[t] = "acquire"
    /\ lock' = t
    /\ pc' = [pc EXCEPT ![t] = "locked"]
    /\ serial' = Execute(cmd[t], serial).transactions
    /\ expected' = [expected EXCEPT ![t] = Execute(cmd[t], serial).result]
    /\ UNCHANGED <<transactions, cmd, to_save, result, file, nextId, now, calls, seen,
                   overlap, last_deleted>>

\* state.transactions.lock().unwrap(): the task waits until the Mutex is free.
Lock(t) ==
    /\ pc[t] = "acquire"
    /\ lock = NoTask
    /\ lock' = t
    /\ pc' = [pc EXCEPT ![t] = "locked"]
    /\ serial' = Execute(cmd[t], serial).transactions
    /\ expected' = [expected EXCEPT ![t] = Execute(cmd[t], serial).result]
    /\ UNCHANGED <<transactions, cmd, to_save, result, file, nextId, now, calls, seen,
                   overlap, last_deleted>>

Holding(t, op) == pc[t] = "locked" /\ lock = t /\ cmd[t].op = op

\* Mutant: the guard is kept while the copy is saved.
UnlockAndSave_KeepsGuard(t, copy, c) ==
    /\ lock' = lock
    /\ to_save' = [to_save EXCEPT ![t] = copy]
    /\ cmd' = [cmd EXCEPT ![t] = c]
    /\ pc' = [pc EXCEPT ![t] = "save"]
    /\ UNCHANGED <<result, expected>>

\* The guard is dropped and the command goes on to save its copy.
UnlockAndSave(t, copy, c) ==
    /\ lock' = NoTask
    /\ to_save' = [to_save EXCEPT ![t] = copy]
    /\ cmd' = [cmd EXCEPT ![t] = c]
    /\ pc' = [pc EXCEPT ![t] = "save"]
    /\ UNCHANGED <<result, expected>>

\* Mutant: the command returns without dropping the guard.
UnlockAndReturn_KeepsGuard(t, r) ==
    /\ lock' = lock
    /\ Return(t, r)

\* The guard is dropped and the command returns without saving.
UnlockAndReturn(t, r) ==
    /\ lock' = NoTask
    /\ Return(t, r)

\* Mutant: the record is inserted at the front.
AddTransactionLocked_Front(t) ==
    /\ Holding(t, "add")
    /\ transactions' = <<cmd[t].ret[1]>> \o transactions
    /\ UnlockAndSave(t, transactions', cmd[t])
    /\ seen' = seen \cup Ids(transactions')
    /\ UNCHANGED <<file, nextId, now, calls, overlap, serial>>
    /\ last_deleted' = <<>>

\* add_transaction_command under the lock: push, clone.
AddTransactionLocked(t) ==
    /\ Holding(t, "add")
    /\ transactions' = Append(transactions, cmd[t].ret[1])
    /\ UnlockAndSave(t, transactions', cmd[t])
    /\ seen' = seen \cup Ids(transactions')
    /\ UNCHANGED <<file, nextId, now, calls, overlap, serial>>
    /\ last_deleted' = <<>>

\* update_transaction_command under the lock, and the is_err() return after it.
UpdateTransactionLocked(t) ==
    /\ Holding(t, "update")
    /\ LET pos == Position(transactions, cmd[t].id) IN
       IF pos # 0
       THEN /\ transactions' =
                 [transactions EXCEPT ![pos] =
                     UpdateFields(@, cmd[t].transaction_type, cmd[t].amount,
                                  Trim(cmd[t].description), Trim(cmd[t].store_name))]
            /\ UnlockAndSave(t, transactions', [cmd[t] EXCEPT !.ret = <<transactions'[pos]>>])
       ELSE /\ UNCHANGED transactions
            /\ UnlockAndReturn(t, Err(ErrIdNoEncontrada))
    /\ UNCHANGED <<file, nextId, now, calls, seen, overlap, serial>>
    /\ last_deleted' = <<>>

\* delete_transaction_command under the lock, and the test of found after it.
DeleteTransactionLocked(t) ==
    /\ Holding(t, "delete")
    /\ transactions' = RetainIdNot(transactions, cmd[t].id)
    /\ IF Len(transactions') < Len(transactions)
       THEN UnlockAndSave(t, transactions', cmd[t])
       ELSE UnlockAndReturn(t, Err(ErrIdNoEncontrada))
    /\ UNCHANGED <<file, nextId, now, calls, seen, overlap, serial>>
    /\ last_deleted' = <<>>

\* rename_store_command under the lock, and the test of renamed_count after it.
RenameStoreLocked(t) ==
    /\ Holding(t, "rename")
    /\ transactions' = RenameAll(transactions, cmd[t].store_name, cmd[t].new_name)
    /\ IF RenamedCount(transactions, cmd[t].store_name) > 0
       THEN UnlockAndSave(t, transactions', cmd[t])
       ELSE UnlockAndReturn(t, Err(ErrRenombrarNoEncontrada))
    /\ UNCHANGED <<file, nextId, now, calls, seen, overlap, serial>>
    /\ last_deleted' = <<>>

\* delete_store_command under the lock, and the test of the lengths after it.
DeleteStoreLocked(t) ==
    /\ Holding(t, "delete_store")
    /\ transactions' = RetainStoreNot(transactions, cmd[t].store_name)
    /\ IF Len(transactions') < Len(transactions)
       THEN UnlockAndSave(t, transactions', cmd[t])
       ELSE UnlockAndReturn(t, Err(ErrEliminarNoEncontrada))
    /\ UNCHANGED <<file, nextId, now, calls, seen, overlap, serial>>
    /\ last_deleted' = IF Len(transactions') < Len(transactions)
                          \/ cmd[t].store_name = last_deleted
                       THEN cmd[t].store_name ELSE <<>>

\* get_all_transactions: lock, clone, return the copy.
GetAllTransactionsLocked(t) ==
    /\ Holding(t, "list")
    /\ UnlockAndReturn(t, Ok(transactions))
    /\ UNCHANGED <<transactions, file, nextId, now, calls, seen, overlap, serial>>
    /\ last_deleted' = <<>>

\* get_unique_stores: lock, collect, insert the sentinel, sort, return.
GetUniqueStoresLocked(t) ==
    /\ Holding(t, "stores")
    /\ UnlockAndReturn(t, OkStores(SortedStores(transactions)))
    /\ UNCHANGED <<transactions, file, nextId, now, calls, seen, overlap, serial>>
    /\ last_deleted' = <<>>

\* get_store_info_command: lock, count, return.
GetStoreInfoLocked(t) ==
    /\ Holding(t, "store_info")
    /\ UnlockAndReturn(t, OkCounts(StoreCounts(transactions, EmptyMap)))
    /\ UNCHANGED <<transactions, file, nextId, now, calls, seen, overlap, serial>>
    /\ last_deleted' = <<>>

\* f64::abs
Abs(amount) == IF amount < 0 THEN -amount ELSE amount

\* format!("{:.2}", x) for an x that is not negative, in hundredths.
FixedTwo(x) ==
    Digits(x \div 100) \o <<".">> \o
    <<DigitChar[((x % 100) \div 10) + 1], DigitChar[(x % 10) + 1]>>

\* str::split(sep).collect()
RECURSIVE Split(_, _)
Split(s, sep) ==
    IF \A i \in 1 .. Len(s) : s[i] # sep THEN <<s>>
    ELSE LET i == CHOOSE k \in 1 .. Len(s) :
                    s[k] = sep /\ \A j \in 1 .. (k - 1) : s[j] # sep
         IN  <<SubSeq(s, 1, i - 1)>> \o Split(SubSeq(s, i + 1, Len(s)), sep)

\* chars().rev()
Rev(s) == [i \in 1 .. Len(s) |-> s[Len(s) + 1 - i]]

\* Mutant: a separator goes in at every third digit, the first included.
InsertSeparator_NoFirstTest(i, formatted_integer) ==
    IF i % 3 = 0 THEN <<".">> \o formatted_integer ELSE formatted_integer

\* if i > 0 && i % 3 == 0 { formatted_integer.insert(0, '.') }
InsertSeparator(i, formatted_integer) ==
    IF i > 0 /\ i % 3 = 0 THEN <<".">> \o formatted_integer ELSE formatted_integer

\* The loop over the digits from the last to the first, from its step i on.
RECURSIVE GroupThousands(_, _, _)
GroupThousands(reversed, i, formatted_integer) ==
    IF i = Len(reversed) THEN formatted_integer
    ELSE GroupThousands(reversed, i + 1,
                        <<reversed[i + 1]>> \o InsertSeparator(i, formatted_integer))

\* format_currency_es_ea_command, the amount in hundredths.
FormatCurrencyEsEa(amount) ==
    LET s == FixedTwo(Abs(amount))
        parts == Split(s, ".")
        integer_part_str == parts[1]
        decimal_part_str == IF Len(parts) > 1 THEN parts[2] ELSE <<"0", "0">>
        formatted_integer == GroupThousands(Rev(integer_part_str), 0, <<>>)
        final_string == formatted_integer \o <<",">> \o decimal_part_str
    IN  IF amount < 0 THEN <<"-">> \o final_string ELSE final_string

\* format_currency_es_ea_command: it takes no lock and returns the text.
FormatCurrencyCall(t, amount) ==
    /\ CanCall(t)
    /\ calls' = calls + 1
    /\ Return(t, OkText(FormatCurrencyEsEa(amount)))
    /\ UNCHANGED <<transactions, lock, file, nextId, now, seen, overlap, serial>>
    /\ last_deleted' = <<>>

\* Mutant: the file is opened without being emptied.
SaveOpens_KeepsContent(t) ==
    /\ pc[t] = "save"
    /\ file' = file
    /\ pc' = [pc EXCEPT ![t] = "write"]
    /\ UNCHANGED <<transactions, lock, cmd, to_save, result, nextId, now, calls, seen,
                   overlap, serial, expected, last_deleted>>

\* save_transactions_to_file up to the file being open: create_dir_all has
\* succeeded, and fs::write creates the file, which leaves it empty.
SaveOpens(t) ==
    /\ pc[t] = "save"
    /\ file' = Created
    /\ pc' = [pc EXCEPT ![t] = "write"]
    /\ UNCHANGED <<transactions, lock, cmd, to_save, result, nextId, now, calls, seen,
                   overlap, serial, expected, last_deleted>>

\* fs::write writes the text to the file it opened, and the command returns
\* what its match on Ok gives.
SaveSucceeds(t) ==
    /\ pc[t] = "write"
    /\ file' = Overwritten(file, to_save[t])
    /\ Return(t, Ok(cmd[t].ret))
    /\ UNCHANGED <<transactions, lock, nextId, now, calls, seen, overlap, serial, last_deleted>>

\* Mutant: a failed save puts the collection back to what the disk holds.
SaveFails_RollsBack(t) ==
    /\ pc[t] \in {"save", "write"}
    /\ file' = file
    /\ Return(t, Err(ErrGuardar))
    /\ transactions' = FromJsonAll(file.data)
    /\ UNCHANGED <<lock, nextId, now, calls, seen, overlap, serial, last_deleted>>

\* create_dir_all fails, fs::write fails to open the file, or it fails while
\* writing; the command returns the message.
SaveFails(t) ==
    /\ \/ pc[t] = "save" /\ file' = file /\ Return(t, Err(ErrDirectorio))
       \/ pc[t] = "save" /\ file' = file /\ Return(t, Err(ErrGuardar))
       \/ /\ pc[t] = "write"
          /\ file' \in {file, CutShort(file, to_save[t])}
          /\ Return(t, Err(ErrGuardar))
    /\ UNCHANGED <<transactions, lock, nextId, now, calls, seen, overlap, serial, last_deleted>>

\* main: the program starts, and the commands can be invoked.
Start(readable) ==
    /\ \A t \in Tasks : pc[t] = "stopped"
    /\ \E ts \in {now, now + 1} :
         /\ transactions' = Main(file, readable, NewUuid, ts)
         /\ now' = ts
    /\ nextId' = nextId + 1
    /\ seen' = Ids(transactions')
    /\ serial' = transactions'
    /\ pc' = [t \in Tasks |-> "idle"]
    /\ UNCHANGED <<lock, cmd, to_save, result, file, calls, overlap, expected, last_deleted>>

\* ------------------------------------------------------- the specifications

\* Ids a caller may name: the ids handed out so far, and 0, which is never one.
IdInputs == 0 .. (nextId - 1)

AddTransactionCommand(t) ==
    /\ CanCall(t)
    /\ \E in \in TransactionInputs : AddTransactionCall(t, in[1], in[2], in[3], in[4])

UpdateTransactionCommand(t) ==
    /\ CanCall(t)
    /\ \E id \in IdInputs, in \in TransactionInputs :
        UpdateTransactionCall(t, id, in[1], in[2], in[3], in[4])

DeleteTransactionCommand(t) ==
    /\ CanCall(t)
    /\ \E id \in IdInputs : DeleteTransactionCall(t, id)

RenameStoreCommand(t) ==
    /\ CanCall(t)
    /\ \E old \in StoreInputs, new \in StoreInputs : RenameStoreCall(t, old, new)

DeleteStoreCommand(t) ==
    /\ CanCall(t)
    /\ \E s \in StoreInputs : DeleteStoreCall(t, s)

\* A step of a command on task t in which no save fails.
Runs(t) ==
    \/ AddTransactionCommand(t)
    \/ UpdateTransactionCommand(t)
    \/ DeleteTransactionCommand(t)
    \/ RenameStoreCommand(t)
    \/ DeleteStoreCommand(t)
    \/ GetAllTransactionsCall(t)
    \/ GetUniqueStoresCall(t)
    \/ GetStoreInfoCall(t)
    \/ Lock(t)
    \/ AddTransactionLocked(t)
    \/ UpdateTransactionLocked(t)
    \/ DeleteTransactionLocked(t)
    \/ RenameStoreLocked(t)
    \/ DeleteStoreLocked(t)
    \/ GetAllTransactionsLocked(t)
    \/ GetUniqueStoresLocked(t)
    \/ GetStoreInfoLocked(t)
    \/ SaveOpens(t)
    \/ SaveSucceeds(t)

Next == \E t \in Tasks : Runs(t) \/ SaveFails(t)

\* Commands invoked at any time, overlapping the ones still running or not.
Spec == Init /\ [][Next]_vars

\* The runs in which each command returns before the next is invoked.
InitSeq == InitWith(FALSE)

SpecSeq == InitSeq /\ [][Next]_vars

\* A step of the command running on task t, after its invocation.
Continues(t) ==
    \/ Lock(t)
    \/ AddTransactionLocked(t)
    \/ UpdateTransactionLocked(t)
    \/ DeleteTransactionLocked(t)
    \/ RenameStoreLocked(t)
    \/ DeleteStoreLocked(t)
    \/ GetAllTransactionsLocked(t)
    \/ GetUniqueStoresLocked(t)
    \/ GetStoreInfoLocked(t)
    \/ SaveOpens(t)
    \/ SaveSucceeds(t)
    \/ SaveFails(t)

\* The runtime goes on running a command that can take a step: a task that
\* could take the Mutex is woken, and a file operation ends, well or not.
Fairness == \A t \in Tasks : WF_vars(Continues(t))

\* The inputs of the runs below: a create or update that passes the checks and
\* one that does not, a store some record has and one none has at the start.
LiveTransactionInputs ==
    { <<"Gasto", 1250, <<" ", "C", " ">>, <<" ", "A", " ">> >>,
      <<"Gasto", 0, <<"C">>, <<"A">> >> }

LiveStoreInputs == {<<" ", "A", " ">>, SeedStore}

\* A command is invoked on task t with one of these inputs.
Invoked(t) ==
    /\ CanCall(t)
    /\ \/ \E in \in LiveTransactionInputs :
              AddTransactionCall(t, in[1], in[2], in[3], in[4])
       \/ \E id \in IdInputs, in \in LiveTransactionInputs :
              UpdateTransactionCall(t, id, in[1], in[2], in[3], in[4])
       \/ \E id \in IdInputs : DeleteTransactionCall(t, id)
       \/ \E old \in LiveStoreInputs, new \in LiveStoreInputs :
              RenameStoreCall(t, old, new)
       \/ \E s \in LiveStoreInputs : DeleteStoreCall(t, s)
       \/ GetAllTransactionsCall(t)
       \/ GetUniqueStoresCall(t)
       \/ GetStoreInfoCall(t)

NextLive == \E t \in Tasks : Invoked(t) \/ Continues(t)

\* The overlapping runs in which no command that can go on is left standing.
SpecLive == Init /\ [][NextLive]_vars /\ Fairness

\* The runs, overlapping, in which every save succeeds.
NextSaved == \E t \in Tasks : Runs(t)

SpecSaved == Init /\ [][NextSaved]_vars

\* The store names of the records the store queries are run on: two a create
\* was given, the seed record's, and the sentinel, which add_transaction_command
\* accepts as a store name.
Cafe == <<"C", "a", "f", "e">>
Work == <<"W", "o", "r", "k">>
LedgerStores == {Cafe, Work, SeedStore, Sentinel}

\* A collection that creates and deletes have left with records of these stores.
Ledger(stores) ==
    [i \in 1 .. Len(stores) |->
        Transaction(i, "Gasto", 1250, <<"C">>, stores[i], 0)]

Ledgers == {Ledger(stores) : stores \in UNION {[1 .. n -> LedgerStores] : n \in 0 .. MaxLedger}}

\* get_unique_stores and get_store_info_command, overlapping, on each such
\* collection.
InitQueries ==
    /\ transactions \in Ledgers
    /\ lock = NoTask
    /\ pc = [t \in Tasks |-> "idle"]
    /\ cmd = [t \in Tasks |-> NoCmd]
    /\ to_save = [t \in Tasks |-> <<>>]
    /\ result = [t \in Tasks |-> Pending]
    /\ file = Written(transactions)
    /\ nextId = Len(transactions) + 1
    /\ now = 0
    /\ calls = 0
    /\ seen = Ids(transactions)
    /\ overlap = TRUE
    /\ serial = transactions
    /\ expected = [t \in Tasks |-> Pending]
    /\ last_deleted = <<>>

NextQueries ==
    \E t \in Tasks :
        \/ GetUniqueStoresCall(t)
        \/ GetStoreInfoCall(t)
        \/ Lock(t)
        \/ GetUniqueStoresLocked(t)
        \/ GetStoreInfoLocked(t)

SpecQueries == InitQueries /\ [][NextQueries]_vars

\* What the program may find as transactions.json when it starts: no file,
\* an empty file, or the text of a collection an earlier run saved.
StartFiles == {NoFile, Created} \cup {Written(txs) : txs \in Ledgers}

\* The program is about to start.
InitStart ==
    /\ transactions = <<>>
    /\ lock = NoTask
    /\ pc = [t \in Tasks |-> "stopped"]
    /\ cmd = [t \in Tasks |-> NoCmd]
    /\ to_save = [t \in Tasks |-> <<>>]
    /\ result = [t \in Tasks |-> Pending]
    /\ file \in StartFiles
    /\ nextId = Len(file.data) + 1
    /\ now = 0
    /\ calls = 0
    /\ seen = {}
    /\ overlap = TRUE
    /\ serial = transactions
    /\ expected = [t \in Tasks |-> Pending]
    /\ last_deleted = <<>>

\* The program starts on each such file, and the collection is listed.
NextStart ==
    \/ \E readable \in BOOLEAN : Start(readable)
    \/ \E t \in Tasks :
        \/ GetAllTransactionsCall(t)
        \/ Lock(t)
        \/ GetAllTransactionsLocked(t)

SpecStart == InitStart /\ [][NextStart]_vars

\* The amounts format_currency_es_ea_command is given, in hundredths: of one
\* to ten digits, negative and not, with and without cents.
FormatMagnitudes ==
    {0, 5, 50, 123450, 123456789}
    \cup {m * k : m \in {1, 12, 999, 1205},
                  k \in {1, 10, 100, 1000, 10000, 100000, 1000000}}

FormatAmounts == FormatMagnitudes \cup {-m : m \in FormatMagnitudes}

FormatCurrencyEsEaCommand(t) ==
    /\ CanCall(t)
    /\ \E amount \in FormatAmounts : FormatCurrencyCall(t, amount)

NextFormat == \E t \in Tasks : FormatCurrencyEsEaCommand(t)

\* format_currency_es_ea_command called with each such amount.
SpecFormat == Init /\ [][NextFormat]_vars

\* ------------------------------------------------------------ the claims

StoreNames(txs) == {txs[i].store_name : i \in 1 .. Len(txs)}

\* The inputs the checks are meant to turn away, as the specification lists them.
BadTransactionInput(amount, description, store_name) ==
    amount <= 0 \/ Trim(description) = <<>> \/ Trim(store_name) = <<>>

\* The inputs of each kind among those a caller passes.
BadTransactionInputs ==
    {in \in TransactionInputs : BadTransactionInput(in[2], in[3], in[4])}

BadRenameInputs ==
    {p \in StoreInputs \X StoreInputs :
        Trim(p[1]) = <<>> \/ Trim(p[2]) = <<>> \/ Trim(p[1]) = Sentinel
           \/ Trim(p[1]) = Trim(p[2])}

BadStoreInputs == {s \in StoreInputs : Trim(s) = <<>> \/ Trim(s) = Sentinel}

PassingTransactionInputs ==
    {in \in TransactionInputs :
        in[1] \in {"Ingreso", "Gasto"} /\ ~BadTransactionInput(in[2], in[3], in[4])}

PassingRenameInputs == (StoreInputs \X StoreInputs) \ BadRenameInputs

PassingStoreInputs == StoreInputs \ BadStoreInputs

\* The step of task t returned an InvalidInput error and did nothing else.
RejectedUntouched(t) ==
    /\ IsInvalidInput(result'[t])
    /\ pc'[t] = "idle"
    /\ transactions' = transactions
    /\ file' = file
    /\ lock' = lock

\* Task t takes the step that ends its stay at the given place.
Leaves(t, place) == pc[t] = place /\ pc'[t] # place

\* Task t's command takes a step of its save.
Saves(t) == pc[t] \in {"save", "write"} /\ pc'[t] # pc[t]

\* Task t takes the step that invokes a command.
Invokes(t) == pc[t] = "idle" /\ calls' # calls /\ FirstFree(t)

\* Task t takes the step in which its command returns.
Returns(t) == pc'[t] = "idle" /\ (pc[t] # "idle" \/ Invokes(t))

\* The step invokes a command on task t, which goes on to lock the collection
\* as a command of kind op.
Proceeds(t, op) == Invokes(t) /\ pc'[t] = "acquire" /\ cmd'[t].op = op

\* The inputs the specification lets pass are let pass by the commands' checks.
PassingInputsPass ==
    /\ \A in \in PassingTransactionInputs :
          TransactionValidation(in[1], in[2], in[3], in[4]) = ""
    /\ \A p \in PassingRenameInputs : RenameValidation(p[1], p[2]) = ""
    /\ \A s \in PassingStoreInputs : DeleteStoreValidation(s) = ""

\* C1: no record of the collection has the sentinel "Todas las Tiendas" as its
\* store name, whatever commands ran.
C1_NoSentinelStore ==
    \A i \in 1 .. Len(transactions) : transactions[i].store_name # Sentinel

\* C2: no two records of the collection share an id, under any interleaving;
\* a pushed record's id was never in the collection before; and a step that
\* keeps the length (update, rename) keeps every record's id.
UniqueIds ==
    \A i, j \in 1 .. Len(transactions) :
        i # j => transactions[i].id # transactions[j].id

FreshOnPush ==
    Len(transactions') = Len(transactions) + 1 =>
        transactions'[Len(transactions')].id \notin seen

IdsKept ==
    Len(transactions') = Len(transactions) =>
        \A i \in 1 .. Len(transactions) : transactions'[i].id = transactions[i].id

C2_UniqueIds == []UniqueIds /\ [][FreshOnPush /\ IdsKept]_vars

\* Two commands pushed their records: three ids in the collection.
C2_Witness == Len(transactions) = 3

\* C3: every record of the collection has amount > 0.
C3_AmountsPositive ==
    \A i \in 1 .. Len(transactions) : transactions[i].amount > 0

\* A create was accepted and a command with a non-positive amount was turned away.
C3_Witness ==
    /\ Len(transactions) = 2
    /\ \E t \in Tasks : result[t] = Err(ErrMonto)

\* C4: every record of the collection, of a command's copy and of a snapshot
\* on disk has a description and a store name with something other than
\* whitespace in them.
TextPresent(txs) ==
    \A i \in 1 .. Len(txs) :
        /\ Trim(txs[i].description) # <<>>
        /\ Trim(txs[i].store_name) # <<>>

C4_TextNeverEmpty ==
    /\ TextPresent(transactions)
    /\ file.state = "json" => TextPresent(file.data)
    /\ \A t \in Tasks : TextPresent(to_save[t])

\* The snapshot on disk holds the first record under the name a rename gave it.
C4_Witness ==
    /\ file.state = "json"
    /\ \E i \in 1 .. Len(file.data) :
          /\ file.data[i].store_name = <<"A">>
          /\ file.data[i].description = SeedDescription

\* C5: a create, update, rename or delete-store whose input is invalid
\* (non-positive amount, empty trimmed text, empty old or new name, the sentinel
\* as the old or deleted name, old = new) returns InvalidInput in the step that
\* invokes it, with the collection and the file as they were (no invoking step
\* that ends otherwise is a call with such an input); and any command that
\* returns InvalidInput leaves them as they were.
C5_InvalidInputNoEffect ==
    [][\A t \in Tasks :
        /\ (Invokes(t) /\ ~RejectedUntouched(t)) =>
            /\ cmd'[t].op \in {"add", "none"} =>
                  \A in \in BadTransactionInputs :
                      ~AddTransactionCall(t, in[1], in[2], in[3], in[4])
            /\ cmd'[t].op \in {"update", "none"} =>
                  \A in \in BadTransactionInputs, id \in IdInputs :
                      ~UpdateTransactionCall(t, id, in[1], in[2], in[3], in[4])
            /\ cmd'[t].op \in {"rename", "none"} =>
                  \A p \in BadRenameInputs : ~RenameStoreCall(t, p[1], p[2])
            /\ cmd'[t].op \in {"delete_store", "none"} =>
                  \A s \in BadStoreInputs : ~DeleteStoreCall(t, s)
        /\ (Returns(t) /\ IsInvalidInput(result'[t]))
              => (transactions' = transactions /\ file' = file)
      ]_vars

\* rename_store_command("Todas las Tiendas", X) was turned away.
C5_Witness == \E t \in Tasks : result[t] = Err(ErrRenombrarTodas)

\* The running command of task t names an id or a store no record has.
TargetAbsent(t) ==
    \/ cmd[t].op \in {"update", "delete"} /\ cmd[t].id \notin Ids(transactions)
    \/ cmd[t].op \in {"rename", "delete_store"}
          /\ cmd[t].store_name \notin StoreNames(transactions)

\* C6 as stated: an update or delete naming an id no record has, and a rename
\* or delete-store naming a store no record has, returns NotFound and leaves
\* the collection as it was.
C6_AbsentAlwaysNotFound ==
    [][\A t \in Tasks :
        /\ (Invokes(t) /\ pc'[t] = "idle") =>
            /\ \A id \in IdInputs, in \in TransactionInputs :
                  (id \notin Ids(transactions)
                     /\ UpdateTransactionCall(t, id, in[1], in[2], in[3], in[4]))
                  => IsNotFound(result'[t])
            /\ \A old \in StoreInputs, new \in StoreInputs :
                  (Trim(old) \notin StoreNames(transactions)
                     /\ RenameStoreCall(t, old, new))
                  => IsNotFound(result'[t])
            /\ \A s \in StoreInputs :
                  (Trim(s) \notin StoreNames(transactions) /\ DeleteStoreCall(t, s))
                  => IsNotFound(result'[t])
        /\ (Leaves(t, "locked") /\ TargetAbsent(t))
              => (IsNotFound(result'[t]) /\ transactions' = transactions)
      ]_vars

\* C6 amended: when the inputs pass the checks, the command goes on to the lock
\* with the id or the trimmed store it was given and without touching the
\* collection; and when no record has that id or store as the command holds
\* the lock, it returns NotFound there, with the collection and the file as
\* they were.
C6_NotFoundNoEffect ==
    [][\A t \in Tasks :
        /\ Invokes(t) => PassingInputsPass
        /\ Proceeds(t, "update") =>
              \A id \in IdInputs, in \in PassingTransactionInputs :
                  UpdateTransactionCall(t, id, in[1], in[2], in[3], in[4])
                  => (cmd'[t].id = id /\ transactions' = transactions)
        /\ Proceeds(t, "delete") =>
              \A id \in IdInputs :
                  DeleteTransactionCall(t, id)
                  => (cmd'[t].id = id /\ transactions' = transactions)
        /\ Proceeds(t, "rename") =>
              \A p \in PassingRenameInputs :
                  RenameStoreCall(t, p[1], p[2])
                  => (cmd'[t].store_name = Trim(p[1]) /\ transactions' = transactions)
        /\ Proceeds(t, "delete_store") =>
              \A s \in PassingStoreInputs :
                  DeleteStoreCall(t, s)
                  => (cmd'[t].store_name = Trim(s) /\ transactions' = transactions)
        /\ Leaves(t, "acquire") => transactions' = transactions
        /\ (Leaves(t, "locked") /\ TargetAbsent(t))
              => /\ IsNotFound(result'[t])
                 /\ pc'[t] = "idle"
                 /\ transactions' = transactions
                 /\ file' = file
      ]_vars

\* A rename whose names pass the checks found no record of the old store.
C6_Witness == \E t \in Tasks : result[t] = Err(ErrRenombrarNoEncontrada)

\* What command c did to the collection is there in txs.
MutationApplied(c, txs) ==
    CASE c.op = "add" -> Len(txs) > 0 /\ txs[Len(txs)] = c.ret[1]
      [] c.op = "update" ->
            \E i \in 1 .. Len(txs) :
                /\ txs[i].id = c.id
                /\ txs[i].transaction_type = c.transaction_type
                /\ txs[i].amount = c.amount
                /\ txs[i].description = Trim(c.description)
                /\ txs[i].store_name = Trim(c.store_name)
      [] c.op = "delete" -> c.id \notin Ids(txs)
      [] c.op = "rename" ->
            c.store_name \notin StoreNames(txs) /\ c.new_name \in StoreNames(txs)
      [] c.op = "delete_store" -> c.store_name \notin StoreNames(txs)
      [] OTHER -> FALSE

\* C7: with commands one at a time, when a command's save fails and it returns
\* PersistenceError, the collection is not rolled back: it is the copy the
\* command made under the lock, with the command's change in it; and
\* get_all_transactions returns the collection as it is.
C7_SaveFailureKeepsChange ==
    [][\A t \in Tasks :
        /\ (Saves(t) /\ IsPersistenceError(result'[t]))
              => /\ transactions' = transactions
                 /\ transactions' = to_save[t]
                 /\ MutationApplied(cmd[t], transactions')
        /\ (Leaves(t, "locked") /\ cmd[t].op = "list")
              => result'[t] = Ok(transactions)
      ]_vars

\* A create's write failed with no file written yet: the record is in the
\* collection all the same.
C7_Witness ==
    /\ \E t \in Tasks : result[t] = Err(ErrGuardar)
    /\ Len(transactions) = 2
    /\ file = NoFile

\* C8: with commands one at a time, a create whose inputs pass the checks
\* changes the collection in one step only, which appends one record: the given
\* type and amount, the trimmed description and store name, an id no record
\* had; and the command returns that record when it is saved.
C8_CreateAppendsOne ==
    [][\A t \in Tasks :
        /\ \A in \in PassingTransactionInputs :
              (Invokes(t) /\ AddTransactionCall(t, in[1], in[2], in[3], in[4]))
              => /\ pc'[t] = "acquire"
                 /\ transactions' = transactions
                 /\ cmd'[t].ret[1].transaction_type = in[1]
                 /\ cmd'[t].ret[1].amount = in[2]
                 /\ cmd'[t].ret[1].description = Trim(in[3])
                 /\ cmd'[t].ret[1].store_name = Trim(in[4])
                 /\ cmd'[t].ret[1].id \notin Ids(transactions)
        /\ (Leaves(t, "acquire") /\ cmd[t].op = "add")
              => (transactions' = transactions /\ cmd'[t] = cmd[t])
        /\ (Leaves(t, "locked") /\ cmd[t].op = "add")
              => /\ transactions' = Append(transactions, cmd[t].ret[1])
                 /\ Len(transactions') = Len(transactions) + 1
                 /\ cmd[t].ret[1].id \notin Ids(transactions)
                 /\ cmd'[t] = cmd[t]
        /\ (Saves(t) /\ cmd[t].op = "add")
              => /\ transactions' = transactions
                 /\ result'[t].ok => result'[t].value = cmd[t].ret
      ]_vars

\* A create given " A " returned its record, the second of the collection,
\* with the store name trimmed.
C8_Witness ==
    /\ Len(transactions) = 2
    /\ transactions[2].store_name = <<"A">>
    /\ \E t \in Tasks : result[t] = Ok(<<transactions[2]>>)

\* C9: an update whose inputs pass the checks goes on with the id and values
\* it was given; when a record has that id as the command holds the lock, that
\* record keeps its id, its timestamp and its place and takes the given type
\* and amount and the trimmed description and store name, and every other
\* record and the length stay as they were.
C9_UpdateInPlace ==
    [][\A t \in Tasks :
        /\ Invokes(t) => PassingInputsPass
        /\ \A id \in IdInputs, in \in PassingTransactionInputs :
              (Proceeds(t, "update")
                 /\ UpdateTransactionCall(t, id, in[1], in[2], in[3], in[4]))
              => /\ cmd'[t].id = id
                 /\ cmd'[t].transaction_type = in[1]
                 /\ cmd'[t].amount = in[2]
                 /\ Trim(cmd'[t].description) = Trim(in[3])
                 /\ Trim(cmd'[t].store_name) = Trim(in[4])
        /\ (Leaves(t, "locked") /\ cmd[t].op = "update" /\ cmd[t].id \in Ids(transactions))
              => /\ Len(transactions') = Len(transactions)
                 /\ \A i \in 1 .. Len(transactions) :
                       IF transactions[i].id = cmd[t].id
                       THEN transactions'[i] =
                              [id |-> transactions[i].id,
                               transaction_type |-> cmd[t].transaction_type,
                               amount |-> cmd[t].amount,
                               description |-> Trim(cmd[t].description),
                               store_name |-> Trim(cmd[t].store_name),
                               timestamp |-> transactions[i].timestamp]
                       ELSE transactions'[i] = transactions[i]
      ]_vars

\* The first record was updated after a later create: it is still first, with
\* its timestamp, and the clock has moved on.
C9_Witness ==
    /\ Len(transactions) = 2
    /\ transactions[1].id = 1
    /\ transactions[1].description = <<"C">>
    /\ transactions[1].timestamp = 0
    /\ now = 1
    /\ \E t \in Tasks : result[t] = Ok(<<transactions[1]>>)

\* C10: a delete goes on with the id it was given; when a record has that id
\* as the command holds the lock, exactly that record goes and the others keep
\* their order; when none has, the collection stays as it was and the command
\* returns NotFound.
C10_DeleteRemovesOne ==
    [][\A t \in Tasks :
        /\ \A id \in IdInputs :
              (Proceeds(t, "delete") /\ DeleteTransactionCall(t, id))
              => cmd'[t].id = id
        /\ (Leaves(t, "locked") /\ cmd[t].op = "delete")
              => IF cmd[t].id \in Ids(transactions)
                 THEN /\ \E k \in 1 .. Len(transactions) :
                            /\ transactions[k].id = cmd[t].id
                            /\ transactions' =
                                  SubSeq(transactions, 1, k - 1)
                                     \o SubSeq(transactions, k + 1, Len(transactions))
                      /\ Len(transactions') = Len(transactions) - 1
                      /\ pc'[t] = "save"
                 ELSE /\ transactions' = transactions
                      /\ IsNotFound(result'[t])
      ]_vars

\* The first record was deleted and saved; the one created after it remains.
C10_Witness ==
    /\ Len(transactions) = 1
    /\ transactions[1].id = 2
    /\ file = Written(transactions)
    /\ \E t \in Tasks : result[t] = Ok(<<>>)

\* C11: a rename whose names pass the checks goes on with the trimmed old and
\* new names; when it renames and goes on to save, every record whose store
\* name was the old name has the new name and is otherwise as it was, every
\* other record and the length are as they were, and the number of records
\* changed is what get_store_info_command counted for the old name before.
C11_RenameChangesMatching ==
    [][\A t \in Tasks :
        /\ Invokes(t) =>
              \A p \in PassingRenameInputs :
                  RenameStoreCall(t, p[1], p[2])
                  => /\ cmd'[t].store_name = Trim(p[1])
                     /\ cmd'[t].new_name = Trim(p[2])
        /\ (Leaves(t, "locked") /\ cmd[t].op = "rename" /\ pc'[t] = "save")
              => /\ Len(transactions') = Len(transactions)
                 /\ \A i \in 1 .. Len(transactions) :
                       IF transactions[i].store_name = cmd[t].store_name
                       THEN transactions'[i] =
                              [transactions[i] EXCEPT !.store_name = cmd[t].new_name]
                       ELSE transactions'[i] = transactions[i]
                 /\ cmd[t].store_name \in DOMAIN StoreCounts(transactions, EmptyMap)
                 /\ Cardinality({i \in 1 .. Len(transactions) :
                                    transactions'[i] # transactions[i]})
                       = StoreCounts(transactions, EmptyMap)[cmd[t].store_name]
        /\ (Leaves(t, "locked") /\ cmd[t].op = "rename" /\ pc'[t] # "save")
              => cmd[t].store_name \notin DOMAIN StoreCounts(transactions, EmptyMap)
      ]_vars

\* Two records were created under the store "A" and a rename gave both the
\* seed record's store name.
C11_Witness ==
    /\ Len(transactions) = 3
    /\ \A i \in 1 .. 3 : transactions[i].store_name = SeedStore
    /\ \E t \in Tasks : result[t] = Ok(<<>>)

\* C12, for the stores delete_store_command accepts: with commands one at a
\* time, a delete-store that reaches the lock with a store some record has
\* removes every record of that store and no other, keeping the order of the
\* rest; the same delete-store called again right after it goes on to the lock
\* with the same trimmed name, returns NotFound there and leaves the
\* collection as the first call left it.
C12_DeleteStoreTwice ==
    [][\A t \in Tasks :
        /\ (Leaves(t, "locked") /\ cmd[t].op = "delete_store"
               /\ cmd[t].store_name \in StoreNames(transactions))
              => /\ transactions' =
                       SelectSeq(transactions,
                                 LAMBDA x : x.store_name # cmd[t].store_name)
                 /\ cmd[t].store_name \notin StoreNames(transactions')
                 /\ pc'[t] = "save"
                 /\ last_deleted' = cmd[t].store_name
        /\ (Invokes(t) /\ last_deleted # <<>>)
              => \A s \in PassingStoreInputs :
                    (Trim(s) = last_deleted /\ DeleteStoreCall(t, s))
                    => /\ pc'[t] = "acquire"
                       /\ cmd'[t].store_name = last_deleted
                       /\ last_deleted' = last_deleted
                       /\ transactions' = transactions
        /\ (Leaves(t, "locked") /\ cmd[t].op = "delete_store"
               /\ last_deleted # <<>> /\ cmd[t].store_name = last_deleted)
              => /\ IsNotFound(result'[t])
                 /\ pc'[t] = "idle"
                 /\ transactions' = transactions
      ]_vars

\* The seed record's store was deleted, and the same delete-store called
\* again returned the not-found error; a record of another store is still there.
C12_Witness ==
    /\ last_deleted = SeedStore
    /\ Len(transactions) = 1
    /\ transactions[1].store_name = <<"A">>
    /\ \E t \in Tasks : result[t] = Err(ErrEliminarNoEncontrada)

\* C12 as stated, for every store some record has: delete-store called with it
\* goes on to the lock with the trimmed name, removes every record of that
\* store and no other, and called again right after returns NotFound with the
\* collection as the first call left it.
C12_DeleteAnyStoreTwice ==
    [][\A t \in Tasks :
        /\ Invokes(t)
              => \A s \in StoreInputs :
                    (Trim(s) \in StoreNames(transactions) /\ DeleteStoreCall(t, s))
                    => (pc'[t] = "acquire" /\ cmd'[t].store_name = Trim(s))
        /\ (Leaves(t, "locked") /\ cmd[t].op = "delete_store"
               /\ cmd[t].store_name \in StoreNames(transactions))
              => /\ transactions' =
                       SelectSeq(transactions,
                                 LAMBDA x : x.store_name # cmd[t].store_name)
                 /\ pc'[t] = "save"
        /\ (Leaves(t, "locked") /\ cmd[t].op = "delete_store"
               /\ last_deleted # <<>> /\ cmd[t].store_name = last_deleted)
              => (IsNotFound(result'[t]) /\ transactions' = transactions)
      ]_vars

\* The collection holding one record of the store "Cafe" and one of "Work".
CafeAndWork == Ledger(<<Cafe, Work>>)

\* What the two store queries return at the step under the lock, in general:
\* the counts have one key for each store some record has, with the number of
\* its records; the list holds those keys and the sentinel, each once, in
\* ascending order; the collection is not changed.
StoreQueriesExact(t) ==
    /\ (Leaves(t, "locked") /\ cmd[t].op = "store_info")
          => /\ result'[t].ok
             /\ DOMAIN result'[t].counts = StoreNames(transactions)
             /\ \A c \in StoreNames(transactions) :
                   result'[t].counts[c] =
                      Cardinality({i \in 1 .. Len(transactions) :
                                      transactions[i].store_name = c})
             /\ transactions' = transactions
    /\ (Leaves(t, "locked") /\ cmd[t].op = "stores")
          => /\ result'[t].ok
             /\ {result'[t].stores[i] : i \in 1 .. Len(result'[t].stores)}
                   = StoreNames(transactions) \cup {Sentinel}
             /\ Len(result'[t].stores)
                   = Cardinality(StoreNames(transactions) \cup {Sentinel})
             /\ \A i, j \in 1 .. Len(result'[t].stores) :
                   i < j => StringLess(result'[t].stores[i], result'[t].stores[j])
             /\ transactions' = transactions

\* C13 as stated: the above, and on the collection of one "Cafe" and one
\* "Work" record the counts are {"Cafe": 1, "Work": 1} and the list is the
\* sentinel, "Cafe", "Work".
C13_SentinelThenStores ==
    [][\A t \in Tasks :
        /\ StoreQueriesExact(t)
        /\ (Leaves(t, "locked") /\ cmd[t].op = "store_info"
               /\ transactions = CafeAndWork)
              => result'[t] = OkCounts((Cafe :> 1) @@ (Work :> 1))
        /\ (Leaves(t, "locked") /\ cmd[t].op = "stores"
               /\ transactions = CafeAndWork)
              => result'[t] = OkStores(<<Sentinel, Cafe, Work>>)
      ]_vars

\* C13 amended: the above, and on the collection of one "Cafe" and one "Work"
\* record the counts are {"Cafe": 1, "Work": 1} and the list is "Cafe", the
\* sentinel "Todas las Tiendas", "Work": the sentinel at its place in the order.
C13_StoresSortedWithSentinel ==
    [][\A t \in Tasks :
        /\ StoreQueriesExact(t)
        /\ (Leaves(t, "locked") /\ cmd[t].op = "store_info"
               /\ transactions = CafeAndWork)
              => result'[t] = OkCounts((Cafe :> 1) @@ (Work :> 1))
        /\ (Leaves(t, "locked") /\ cmd[t].op = "stores"
               /\ transactions = CafeAndWork)
              => result'[t] = OkStores(<<Cafe, Sentinel, Work>>)
      ]_vars

\* get_unique_stores returned on the collection of one "Cafe" and one "Work"
\* record.
C13_Witness ==
    /\ transactions = CafeAndWork
    /\ \E t \in Tasks : result[t] = OkStores(<<Cafe, Sentinel, Work>>)

\* What the load at startup gives main: the records read, none when it failed.
StartupLoad(f, readable) ==
    LET loaded == LoadTransactionsFromFile(f, readable)
    IN  IF loaded.ok THEN loaded.value ELSE <<>>

\* C14: when the program has started, the collection is what the load at
\* startup gave: the records the file holds, and no record when the file is
\* absent or could not be loaded.
C14_StartsWithLoadedRecords ==
    [][\A readable \in BOOLEAN :
        Start(readable) => transactions' = StartupLoad(file, readable)
      ]_vars

\* The first list after a start on a file that holds two records returns them.
C14_StartedOnSavedRecords ==
    /\ file.state = "json" /\ Len(file.data) = 2
    /\ \E t \in Tasks : result[t] = Ok(transactions)
    /\ transactions = FromJsonAll(file.data)

\* The first list after a start with no file returns the test record.
C14_StartedWithTestRecord ==
    /\ file = NoFile
    /\ \E t \in Tasks : result[t] = Ok(transactions)
    /\ Len(transactions) = 1
    /\ transactions[1].description = SeedDescription

IsCurrencyText(amount, text) ==
    LET negative == amount < 0
        magnitude == IF negative THEN -amount ELSE amount
        body == IF negative THEN Tail(text) ELSE text
        n == Len(body)
        integer == SubSeq(body, 1, n - 3)
        whole == Digits(magnitude \div 100)
    IN  /\ Len(text) >= 4
        /\ negative <=> (text[1] = "-")
        /\ n >= 4
        /\ body[n - 2] = ","
        /\ body[n - 1] = DigitChar[((magnitude % 100) \div 10) + 1]
        /\ body[n] = DigitChar[(magnitude % 10) + 1]
        /\ SelectSeq(integer, LAMBDA c : c # ".") = whole
        /\ Len(integer) = Len(whole) + ((Len(whole) - 1) \div 3)
        /\ \A k \in 1 .. Len(integer) :
              (integer[k] = ".") <=> ((Len(integer) - k + 1) % 4 = 0)

\* C16: for every amount of a whole number of hundredths,
\* format_currency_es_ea_command returns "-" when the amount is negative, the
\* whole part grouped by three from the right with ".", ",", and two digits;
\* -1234.5 gives "-1.234,50" and 0 gives "0,00".
C16_FormatCurrency ==
    [][\A t \in Tasks : \A amount \in FormatAmounts :
        (Invokes(t) /\ FormatCurrencyCall(t, amount))
            => /\ IsCurrencyText(amount, result'[t].text)
               /\ amount = -123450
                    => result'[t].text = <<"-", "1", ".", "2", "3", "4", ",", "5", "0">>
               /\ amount = 0 => result'[t].text = <<"0", ",", "0", "0">>
      ]_vars

\* The command returned "-1.234.567,89".
C16_Witness ==
    \E t \in Tasks :
        result[t] = OkText(<<"-", "1", ".", "2", "3", "4", ".", "5", "6", "7", ",", "8", "9">>)

\* C17: no command holds the Mutex while it is at the file: the task that
\* holds it is between its lock and its unlock, a command leaves that part
\* with the Mutex free, the file untouched and the whole collection copied,
\* and the steps of its save neither take nor need the Mutex; so a command
\* waiting for the Mutex while another is at its save can take it.
C17_NoLockAtTheFile ==
    /\ [](\A t \in Tasks :
            /\ pc[t] \in {"save", "write"} => lock # t
            /\ lock = t <=> pc[t] = "locked"
            /\ (pc[t] = "acquire" /\ \A u \in Tasks : pc[u] # "locked")
                  => ENABLED Lock(t))
    /\ [][\A t \in Tasks :
            /\ (Leaves(t, "locked") /\ pc'[t] = "save")
                  => /\ lock' = NoTask
                     /\ file' = file
                     /\ to_save'[t] = transactions'
            /\ Saves(t) => (lock' = lock /\ transactions' = transactions)
       ]_vars

\* A command is writing its copy while the other holds the Mutex.
C17_Witness ==
    \E t, u \in Tasks : pc[t] = "write" /\ pc[u] = "locked" /\ lock = u

\* C18: however the commands overlap, a save that has succeeded leaves in the
\* file exactly the copy its command took while it held the Mutex, never a
\* mix of two commands' copies.
C18_WriteLeavesWholeCopy ==
    [][\A t \in Tasks :
        (Leaves(t, "write") /\ result'[t].ok) => file' = Written(to_save[t])
      ]_vars

\* No command is between its unlock and the end of its save.
NoSaveRunning == \A t \in Tasks : pc[t] \notin {"save", "write"}

\* C19, in the runs where no save fails: whenever no command is between its
\* unlock and the end of its save, the file holds the collection.
C19_FileHoldsCollection == NoSaveRunning => file = Written(transactions)

\* Both of two overlapping commands have saved and returned, and the file
\* holds the text of a collection that is not the one in memory.
C19_FileLeftBehind ==
    /\ AllIdle
    /\ calls = 2
    /\ file.state = "json"
    /\ file # Written(transactions)

\* C20: however the commands overlap, the collection is what the commands
\* that have taken the Mutex leave when run whole, one after another, in the
\* order they took it, and each of them returns what it returns in that run,
\* unless its save fails; the collection changes only by a command's whole
\* change applied to what the commands before it left, so that two
\* overlapping creates are both in the collection.
C20_AsOneAtATime ==
    /\ [](/\ lock = NoTask => transactions = serial
          /\ \A t \in Tasks : lock = t => Execute(cmd[t], transactions).transactions = serial)
    /\ [][\A t \in Tasks :
            /\ (Returns(t) /\ pc[t] # "idle" /\ ~IsPersistenceError(result'[t]))
                  => result'[t] = expected[t]
            /\ Leaves(t, "locked")
                  => transactions' = Execute(cmd[t], transactions).transactions
            /\ transactions' # transactions => Leaves(t, "locked") \/ lock # t
       ]_vars

\* Two creates overlap, the second took the Mutex while the first was writing
\* its copy, and both records are in the collection.
C20_Witness ==
    /\ pc = [t \in Tasks |-> "write"]
    /\ \A t \in Tasks : cmd[t].op = "add"
    /\ Len(to_save[1]) = 2 /\ Len(to_save[2]) = 3
    /\ Len(transactions) = 3
    /\ transactions = serial

\* C22: with commands one at a time, when a command that changed the
\* collection returns success the file holds the collection; a command that
\* returns InvalidInput or NotFound has written nothing, no step outside a
\* save touches the file, and so the file is as the last save left it.
C22_FileFollowsCollection ==
    [][/\ \A t \in Tasks :
            /\ (Leaves(t, "write") /\ result'[t].ok)
                  => /\ file' = Written(transactions')
                     /\ transactions' = to_save[t]
            /\ (Returns(t) /\ (IsInvalidInput(result'[t]) \/ IsNotFound(result'[t])))
                  => /\ file' = file
                     /\ pc[t] \notin {"save", "write"}
       /\ file' # file => \E t \in Tasks : Saves(t)
      ]_vars

\* A create was saved, then a command naming an id no record has returned
\* NotFound, and the file holds the collection with the created record.
C22_Witness ==
    /\ \E t \in Tasks : result[t] = Err(ErrIdNoEncontrada)
    /\ Len(transactions) = 2
    /\ file = Written(transactions)

\* C21: when the runtime goes on running every command that can take a step
\* and every file operation ends, every command that was invoked returns: a
\* command waiting for the Mutex gets it, and whenever a command has not
\* returned, some command can take a step.
C21_EveryCommandReturns ==
    /\ \A t \in Tasks : (pc[t] # "idle") ~> (pc[t] = "idle")
    /\ []((\E t \in Tasks : pc[t] # "idle") => \E t \in Tasks : ENABLED Continues(t))

\* A command waits for the Mutex while the other holds it.
C21_Witness ==
    \E t, u \in Tasks :
        /\ pc[t] = "acquire"
        /\ pc[u] = "locked"
        /\ lock = u
        /\ calls = 2

====
